---------------------------- MODULE Spec2Model ----------------------------
(***************************************************************************)
(* Poll & Vote store of the polling application: the HTTP handlers under   *)
(* src/src/app/api/polls and the relational schema of                      *)
(* src/database/schema.sql (tables, unique indexes, foreign keys, CHECK    *)
(* constraints and the analytics trigger).                                 *)
(*                                                                         *)
(* A handler that issues several database calls is split at its awaits:    *)
(* each step is one database call together with the local code up to the   *)
(* next call.  A vote insert is one database transaction of two steps, the *)
(* statement (row + trigger statement snapshot) and the commit.            *)
(*                                                                         *)
(* Strings are sequences of one-character strings; timestamps are the      *)
(* values of the clock `now`; NoTime stands for SQL NULL / JS null in a    *)
(* timestamp position and NULL for a null identity.                        *)
(***************************************************************************)
EXTENDS Integers, Sequences, FiniteSets, TLC

\* ------------------------------------------------------------- bounds
MaxPolls == 1
MaxTime == 1
MaxInFlight == 2
MaxVotesPerPoll == 2

\* ------------------------------------------------- program constants
MinTitleLen == 3
MaxTitleLen == 200
MinQuestionLen == 5
MaxQuestionLen == 500
MinOptions == 2
MaxOptions == 10

NULL == "null"
NoTime == 0 - 1

\* ------------------------------------------------------------ strings
WS == {" "}

RECURSIVE TrimStart(_)
TrimStart(s) ==
    IF s # <<>> /\ Head(s) \in WS THEN TrimStart(Tail(s)) ELSE s

RECURSIVE TrimEnd(_)
TrimEnd(s) ==
    IF s # <<>> /\ s[Len(s)] \in WS THEN TrimEnd(SubSeq(s, 1, Len(s) - 1)) ELSE s

\* String.prototype.trim
Trim(s) == TrimEnd(TrimStart(s))

\* options.map(opt => opt.trim())
MapTrim(opts) == [i \in 1..Len(opts) |-> Trim(opts[i])]

\* .filter(opt => opt.length > 0)
RECURSIVE FilterNonEmpty(_)
FilterNonEmpty(opts) ==
    IF opts = <<>> THEN <<>>
    ELSE IF Len(Head(opts)) > 0
         THEN <<Head(opts)>> \o FilterNonEmpty(Tail(opts))
         ELSE FilterNonEmpty(Tail(opts))

CleanOptions(opts) == FilterNonEmpty(MapTrim(opts))

HasDuplicates(opts) == \E i, j \in 1..Len(opts) : i # j /\ opts[i] = opts[j]

\* ------------------------------------------------------------- inputs
Users == {"u1", "u2"}
\* Authorization header: absent, a token that fails verification, or a
\* valid token of a user.
Creds == Users \cup {"none", "bad"}
Ips == {"ip1"}

sR == <<"R">>
sB == <<"B">>
sG == <<"G">>
TitleOk == <<"a", "b", "c">>
TitleShort == <<" ", "a", "b", " ">>
QuestionOk == <<"q", "u", "e", "s", "?">>
QuestionShort == <<"q", "?", " ", " ", " ">>
ElevenOptions == [i \in 1..(MaxOptions + 1) |-> <<"o">> \o [j \in 1..i |-> "x"]]

\* eleven raw entries of which one is blank
ElevenWithBlank == [i \in 1..(MaxOptions + 1) |->
                      IF i = 2 THEN <<" ">> ELSE <<"o">> \o [j \in 1..i |-> "x"]]

TitleLong == [i \in 1..(MaxTitleLen + 1) |-> "t"]
TitleInputs == {TitleOk, TitleShort, TitleLong}
QuestionInputs == {QuestionOk, QuestionShort}
OptionInputs ==
    { <<sR, sB>>,
      <<sR, sR>>,
      <<sR, <<" ", "R">> >>,
      <<sR, <<>>, sB, <<" ">> >>,
      <<sR, <<" ">> >>,
      <<sR>>,
      ElevenOptions,
      ElevenWithBlank }
ExpiryInputs == {NoTime, 0}

\* every shape of title, question and options with the default settings,
\* every setting with a well-formed title, question and options, and bodies
\* that carry a created_by and an is_active of their own ("absent": the
\* body has no such field)
CreateBodies ==
    [title : TitleInputs, question : QuestionInputs, options : OptionInputs,
     allow_multiple_votes : {FALSE}, expires_at : {NoTime},
     created_by : {NULL}, is_active : {"absent"}]
    \cup [title : {TitleOk}, question : {QuestionOk}, options : {<<sR, sB>>},
          allow_multiple_votes : BOOLEAN, expires_at : ExpiryInputs,
          created_by : {NULL}, is_active : {"absent"}]
    \cup [title : {TitleOk}, question : {QuestionOk}, options : {<<sR, sB>>},
          allow_multiple_votes : {FALSE}, expires_at : {NoTime},
          created_by : Users, is_active : {"false"}]

\* -------------------------------------------------------------- state
VARIABLES
    polls,      \* table polls: id -> row
    nextPollId, \* ids handed out so far + 1 (ids are never reused)
    votes,      \* table votes: set of committed rows
    analytics,  \* table poll_analytics: poll_id -> row
    reqs,       \* handlers in flight: slot -> request
    now,        \* the clock
    resp        \* the response sent by the latest step, or NoResp

vars == <<polls, nextPollId, votes, analytics, reqs, now, resp>>

Slots == 1..MaxInFlight
Idle == [op |-> "idle"]
NoResp == [op |-> "none"]

\* a verification that takes any presented token for u1's
GetUserUnverified(cred) ==
    IF cred \in Users THEN cred ELSE IF cred = "none" THEN NULL ELSE "u1"

\* auth.getUser(token): the user of a valid token, else no user
GetUser(cred) == IF cred \in Users THEN cred ELSE NULL

Kind(status) ==
    CASE status = 200 -> "OK"
      [] status = 400 -> "ValidationError"
      [] status = 401 -> "Unauthorized"
      [] status = 403 -> "Forbidden"
      [] status = 404 -> "NotFound"
      [] status = 409 -> "Conflict"
      [] OTHER -> "Internal"

Init ==
    /\ polls = <<>>
    /\ nextPollId = 1
    /\ votes = {}
    /\ analytics = <<>>
    /\ reqs = [s \in Slots |-> Idle]
    /\ now = 0
    /\ resp = NoResp


\* ------------------------------------------------------- the database
\* CHECK constraints of table polls
PollsCheck(row) ==
    /\ Len(row.title) >= MinTitleLen /\ Len(row.title) <= MaxTitleLen
    /\ Len(row.question) >= MinQuestionLen /\ Len(row.question) <= MaxQuestionLen
    /\ Len(row.options) >= MinOptions /\ Len(row.options) <= MaxOptions

\* the CHECK constraint a rejected row is reported to violate: constraints
\* are tested in the alphabetical order of their names
PollsCheckError(row) ==
    IF ~(Len(row.options) >= MinOptions /\ Len(row.options) <= MaxOptions)
    THEN "db: violates check constraint polls_options_check"
    ELSE IF ~(Len(row.question) >= MinQuestionLen /\ Len(row.question) <= MaxQuestionLen)
    THEN "db: violates check constraint polls_question_check"
    ELSE "db: violates check constraint polls_title_check"

PollExists(id) == id \in DOMAIN polls

Remove(f, k) == [x \in DOMAIN f \ {k} |-> f[x]]

\* the previous response has left the server
Ready == resp = NoResp

\* return NextResponse.json(...): the response goes out
Deliver ==
    /\ resp # NoResp
    /\ resp' = NoResp
    /\ UNCHANGED <<polls, nextPollId, votes, analytics, reqs, now>>

Respond(op, status, error, req) ==
    [op |-> op, status |-> status, error |-> error, req |-> req]

\* ---------------------------------------------------- POST /api/polls
\* a handler that inserts body.options as received instead of cleanOptions
CreateOutcomeStoresRaw(cred, body) ==
    LET user == GetUser(cred)
        row == [title |-> Trim(body.title),
                question |-> Trim(body.question),
                options |-> body.options,
                created_by |-> user,
                is_active |-> TRUE,
                allow_multiple_votes |-> body.allow_multiple_votes,
                expires_at |-> body.expires_at,
                created_at |-> now]
    IN  IF cred = "none" THEN [status |-> 401, error |-> "Authorization header required"]
        ELSE IF user = NULL THEN [status |-> 401, error |-> "Invalid or expired token"]
        ELSE IF body.title = <<>> \/ Len(Trim(body.title)) < MinTitleLen
             THEN [status |-> 400, error |-> "Title must be at least 3 characters"]
        ELSE IF body.question = <<>> \/ Len(Trim(body.question)) < MinQuestionLen
             THEN [status |-> 400, error |-> "Question must be at least 5 characters"]
        ELSE IF Len(body.options) < MinOptions
             THEN [status |-> 400, error |-> "At least 2 options are required"]
        ELSE IF Len(body.options) > MaxOptions
             THEN [status |-> 400, error |-> "Maximum 10 options allowed"]
        ELSE IF Len(CleanOptions(body.options)) < MinOptions
             THEN [status |-> 400, error |-> "At least 2 non-empty options are required"]
        ELSE IF ~PollsCheck(row)
             THEN [status |-> 400, error |-> PollsCheckError(row)]
        ELSE [status |-> 200, error |-> "", row |-> row]

\* a handler that validates the question before the title
CreateOutcomeQuestionFirst(cred, body) ==
    LET user == GetUser(cred)
        cleanOptions == CleanOptions(body.options)
        row == [title |-> Trim(body.title),
                question |-> Trim(body.question),
                options |-> cleanOptions,
                created_by |-> user,
                is_active |-> TRUE,
                allow_multiple_votes |-> body.allow_multiple_votes,
                expires_at |-> body.expires_at,
                created_at |-> now]
    IN  IF cred = "none" THEN [status |-> 401, error |-> "Authorization header required"]
        ELSE IF user = NULL THEN [status |-> 401, error |-> "Invalid or expired token"]
        ELSE IF body.question = <<>> \/ Len(Trim(body.question)) < MinQuestionLen
             THEN [status |-> 400, error |-> "Question must be at least 5 characters"]
        ELSE IF body.title = <<>> \/ Len(Trim(body.title)) < MinTitleLen
             THEN [status |-> 400, error |-> "Title must be at least 3 characters"]
        ELSE IF Len(body.options) < MinOptions
             THEN [status |-> 400, error |-> "At least 2 options are required"]
        ELSE IF Len(body.options) > MaxOptions
             THEN [status |-> 400, error |-> "Maximum 10 options allowed"]
        ELSE IF Len(cleanOptions) < MinOptions
             THEN [status |-> 400, error |-> "At least 2 non-empty options are required"]
        ELSE IF ~PollsCheck(row)
             THEN [status |-> 400, error |-> PollsCheckError(row)]
        ELSE [status |-> 200, error |-> "", row |-> row]

\* The handler's decision: the response status and message, and the row
\* it hands to the insert.
CreateOutcome(cred, body) ==
    LET user == GetUser(cred)
        cleanOptions == CleanOptions(body.options)
        row == [title |-> Trim(body.title),
                question |-> Trim(body.question),
                options |-> cleanOptions,
                created_by |-> user,
                is_active |-> TRUE,
                allow_multiple_votes |-> body.allow_multiple_votes,
                expires_at |-> body.expires_at,
                created_at |-> now]
    IN  IF cred = "none" THEN [status |-> 401, error |-> "Authorization header required"]
        ELSE IF user = NULL THEN [status |-> 401, error |-> "Invalid or expired token"]
        ELSE IF body.title = <<>> \/ Len(Trim(body.title)) < MinTitleLen
             THEN [status |-> 400, error |-> "Title must be at least 3 characters"]
        ELSE IF body.question = <<>> \/ Len(Trim(body.question)) < MinQuestionLen
             THEN [status |-> 400, error |-> "Question must be at least 5 characters"]
        ELSE IF Len(body.options) < MinOptions
             THEN [status |-> 400, error |-> "At least 2 options are required"]
        ELSE IF Len(body.options) > MaxOptions
             THEN [status |-> 400, error |-> "Maximum 10 options allowed"]
        ELSE IF Len(cleanOptions) < MinOptions
             THEN [status |-> 400, error |-> "At least 2 non-empty options are required"]
        ELSE IF ~PollsCheck(row)
             THEN [status |-> 400, error |-> PollsCheckError(row)]
        ELSE [status |-> 200, error |-> "", row |-> row]

\* the handler, while fewer than cap polls have been created
CreatePollUpTo(cred, body, cap) ==
    LET out == CreateOutcome(cred, body)
        req == [cred |-> cred, body |-> body]
    IN  /\ Ready
        /\ IF out.status = 200
           THEN /\ nextPollId <= cap
                /\ polls' = polls @@ (nextPollId :> out.row)
                /\ nextPollId' = nextPollId + 1
           ELSE UNCHANGED <<polls, nextPollId>>
        /\ resp' = Respond("createPoll", out.status, out.error, req)
        /\ UNCHANGED <<votes, analytics, reqs, now>>

CreatePoll(cred, body) == CreatePollUpTo(cred, body, MaxPolls)

\* ---------------------------------------------------------- the clock
Tick ==
    /\ Ready
    /\ now < MaxTime
    /\ now' = now + 1
    /\ resp' = NoResp
    /\ UNCHANGED <<polls, nextPollId, votes, analytics, reqs>>


\* ------------------------------------------------ the votes table
PollVotes(vs, id) == {v \in vs : v.poll_id = id}

\* requests whose insert statement has run and whose transaction has not
\* committed yet
Pending(id) == {s \in Slots : reqs[s].op = "submitVote" /\ reqs[s].pc = "commit"
                              /\ reqs[s].poll = id}

\* idx_votes_unique_user_poll and idx_votes_unique_ip_poll
SameUniqueKey(a, b) ==
    /\ a.poll_id = b.poll_id
    /\ \/ a.voter_id # NULL /\ a.voter_id = b.voter_id
       \/ /\ a.voter_id = NULL /\ b.voter_id = NULL
          /\ a.voter_ip # NULL /\ a.voter_ip = b.voter_ip

\* the votes table without its two unique indexes
UniqueViolationDropped(row, vs) == FALSE

UniqueViolation(row, vs) == \E v \in vs : SameUniqueKey(row, v)

\* the row identifier: tells apart rows that agree on every column
FreshRow(row, vs) ==
    LET same == {v \in vs : [v EXCEPT !.n = 0] = row}
    IN  [row EXCEPT !.n = Cardinality(same) + 1]

\* COUNT(DISTINCT COALESCE(voter_id::text, voter_ip::text)): NULLs are not
\* counted
Coalesce(a, b) == IF a # NULL THEN a ELSE b
CountDistinctVoters(vs) ==
    Cardinality({Coalesce(v.voter_id, v.voter_ip) : v \in vs} \ {NULL})

\* jsonb_object_agg(option_index::text, count) over GROUP BY option_index
OptionCountsOf(vs) ==
    [i \in {v.option_index : v \in vs} |->
        Cardinality({v \in vs : v.option_index = i})]

\* the two sub-selects of update_poll_analytics over the votes `snap` that
\* the trigger statement's snapshot shows
Subqueries(snap) ==
    [unique_voters |-> CountDistinctVoters(snap),
     option_counts |-> OptionCountsOf(snap)]

\* a trigger that leaves the analytics row as it was
AnalyticsOnInsertSkipped(cur, hasRow, new, sub) == cur

\* update_poll_analytics, TG_OP = 'INSERT': `cur` is the latest version of
\* the analytics row (hasRow: whether there is one), `sub` the sub-selects
\* over the statement's snapshot, the new row included
AnalyticsOnInsert(cur, hasRow, new, sub) ==
    IF ~hasRow
    THEN [total_votes |-> 1, unique_voters |-> 1,
          option_counts |-> (new.option_index :> 1),
          last_vote_at |-> new.created_at]
    ELSE [total_votes |-> cur.total_votes + 1,
          unique_voters |-> sub.unique_voters,
          option_counts |-> sub.option_counts,
          last_vote_at |-> new.created_at]

NoAnalytics ==
    [total_votes |-> 0, unique_voters |-> 0, option_counts |-> <<>>,
     last_vote_at |-> NoTime]

\* a view that defaults last_vote_at to the poll's created_at
PollResultsLastVoteDefault(id) ==
    LET p == polls[id]
        none == [total_votes |-> 0, unique_voters |-> 0,
                 option_counts |-> <<>>, last_vote_at |-> p.created_at]
        pa == IF id \in DOMAIN analytics THEN analytics[id] ELSE none
    IN  [id |-> id, title |-> p.title, question |-> p.question, options |-> p.options,
         created_by |-> p.created_by, created_at |-> p.created_at,
         is_active |-> p.is_active, expires_at |-> p.expires_at,
         total_votes |-> pa.total_votes, unique_voters |-> pa.unique_voters,
         option_counts |-> pa.option_counts, last_vote_at |-> pa.last_vote_at]

\* view poll_results: polls LEFT JOIN poll_analytics with COALESCE defaults
PollResults(id) ==
    LET pa == IF id \in DOMAIN analytics THEN analytics[id] ELSE NoAnalytics
        p == polls[id]
    IN  [id |-> id, title |-> p.title, question |-> p.question, options |-> p.options,
         created_by |-> p.created_by, created_at |-> p.created_at,
         is_active |-> p.is_active,
         expires_at |-> p.expires_at,
         total_votes |-> pa.total_votes, unique_voters |-> pa.unique_voters,
         option_counts |-> pa.option_counts, last_vote_at |-> pa.last_vote_at]


\* ------------------------------------------ POST /api/polls/[id]/vote
\* body.option_index: absent, a string, an integer v, or the non-integer
\* number v + 1/2 (comparisons of v + 1/2 with an integer agree with those
\* of v)
IdxNone == [t |-> "none", v |-> 0]
IdxStr == [t |-> "str", v |-> 0]
IdxInt(k) == [t |-> "int", v |-> k]
IdxFrac(k) == [t |-> "frac", v |-> k]
MaxIdxInput == 2
IdxInputs == {IdxNone, IdxStr, IdxFrac(0)} \cup {IdxInt(k) : k \in (0 - 1)..MaxIdxInput}
IpInputs == Ips \cup {NULL}

\* a route that never looks at expires_at
ExpiredNever(poll) == FALSE

\* new Date(poll.expires_at) < new Date()
Expired(poll) == poll.expires_at # NoTime /\ poll.expires_at < now

\* a route that reads the poll and checks its eligibility before it
\* validates the body
VoteChecksPollFirst(id, idx) ==
    IF ~PollExists(id) THEN [status |-> 404, error |-> "Poll not found"]
    ELSE IF ~polls[id].is_active
         THEN [status |-> 403, error |-> "This poll is not accepting votes"]
    ELSE IF Expired(polls[id]) THEN [status |-> 403, error |-> "This poll has expired"]
    ELSE IF idx.t = "none" THEN [status |-> 400, error |-> "Option index is required"]
    ELSE IF idx.t = "str" \/ idx.v < 0
         THEN [status |-> 400, error |-> "Invalid option index"]
    ELSE IF idx.v >= Len(polls[id].options)
         THEN [status |-> 400, error |-> "Invalid option selected"]
    ELSE [status |-> 200, error |-> ""]

\* a route without the upper bound check of line 73
VoteChecksNoRange(id, idx) ==
    IF idx.t = "none" THEN [status |-> 400, error |-> "Option index is required"]
    ELSE IF idx.t = "str" \/ idx.v < 0
         THEN [status |-> 400, error |-> "Invalid option index"]
    ELSE IF ~PollExists(id) THEN [status |-> 404, error |-> "Poll not found"]
    ELSE IF ~polls[id].is_active
         THEN [status |-> 403, error |-> "This poll is not accepting votes"]
    ELSE IF Expired(polls[id]) THEN [status |-> 403, error |-> "This poll has expired"]
    ELSE [status |-> 200, error |-> ""]

\* Lines 33-75: body validation, the poll read and the eligibility checks
VoteChecks(id, idx) ==
    IF idx.t = "none" THEN [status |-> 400, error |-> "Option index is required"]
    ELSE IF idx.t = "str" \/ idx.v < 0
         THEN [status |-> 400, error |-> "Invalid option index"]
    ELSE IF ~PollExists(id) THEN [status |-> 404, error |-> "Poll not found"]
    ELSE IF ~polls[id].is_active
         THEN [status |-> 403, error |-> "This poll is not accepting votes"]
    ELSE IF Expired(polls[id]) THEN [status |-> 403, error |-> "This poll has expired"]
    ELSE IF idx.v >= Len(polls[id].options)
         THEN [status |-> 400, error |-> "Invalid option selected"]
    ELSE [status |-> 200, error |-> ""]

\* poll.options[option_index]: undefined for a non-integer index and for
\* an index past the end
Undefined == <<"undefined">>
OptionText(options, idx) ==
    IF idx.t = "int" /\ idx.v + 1 \in DOMAIN options THEN options[idx.v + 1] ELSE Undefined

VoteReqOf(r) == [cred |-> r.cred, poll |-> r.poll, idx |-> r.idx, ip |-> r.ip]

StartSlot(s) ==
    /\ Ready
    /\ reqs[s] = Idle
    /\ \A t \in Slots : t < s => reqs[t] # Idle

VoteBegin(s, cred, id, idx, ip) ==
    LET out == VoteChecks(id, idx)
        poll == polls[id]
        r == [op |-> "submitVote", pc |-> "existing", cred |-> cred,
              user |-> GetUser(cred), poll |-> id, idx |-> idx, ip |-> ip,
              text |-> OptionText(poll.options, idx),
              created_at |-> NoTime, row |-> <<>>, sub |-> <<>>, ticket |-> 0]
    IN  /\ StartSlot(s)
        /\ IF out.status # 200
           THEN /\ resp' = Respond("submitVote", out.status, out.error,
                                   [cred |-> cred, poll |-> id, idx |-> idx, ip |-> ip])
                /\ UNCHANGED reqs
           ELSE /\ resp' = NoResp
                /\ reqs' = [reqs EXCEPT ![s] =
                      IF poll.allow_multiple_votes
                      THEN [r EXCEPT !.pc = "insert", !.created_at = now]
                      ELSE r]
        /\ UNCHANGED <<polls, nextPollId, votes, analytics, now>>

\* a duplicate check that looks at every vote of the poll, whoever cast it
ExistingVotesAnyVoter(r) == PollVotes(votes, r.poll)

\* Lines 79-92: the rows the existing-vote query matches
ExistingVotes(r) ==
    IF r.user # NULL
    THEN {v \in PollVotes(votes, r.poll) : v.voter_id = r.user}
    ELSE IF r.ip # NULL
    THEN {v \in PollVotes(votes, r.poll) : v.voter_ip = r.ip /\ v.voter_id = NULL}
    ELSE PollVotes(votes, r.poll)

\* .single(): data only when exactly one row matches
Single(rows) == Cardinality(rows) = 1

VoteCheckExisting(s) ==
    LET r == reqs[s]
    IN  /\ Ready
        /\ r.op = "submitVote" /\ r.pc = "existing"
        /\ IF Single(ExistingVotes(r))
           THEN /\ resp' = Respond("submitVote", 409,
                            IF r.user # NULL THEN "You have already voted on this poll"
                            ELSE "A vote from this location has already been recorded",
                            VoteReqOf(r))
                /\ reqs' = [reqs EXCEPT ![s] = Idle]
           ELSE /\ resp' = NoResp
                /\ reqs' = [reqs EXCEPT ![s] = [r EXCEPT !.pc = "insert", !.created_at = now]]
        /\ UNCHANGED <<polls, nextPollId, votes, analytics, now>>


\* vote data that trusts the presented credential without its verification
VoteDataUnverified(r) ==
    [poll_id |-> r.poll, option_index |-> r.idx.v, option_text |-> r.text,
     voter_id |-> IF r.cred = "none" THEN NULL ELSE r.cred,
     voter_ip |-> IF r.cred # "none" THEN NULL ELSE r.ip,
     created_at |-> r.created_at, n |-> 0]

\* Lines 101-116: voteData
VoteData(r) ==
    [poll_id |-> r.poll, option_index |-> r.idx.v, option_text |-> r.text,
     voter_id |-> r.user,
     voter_ip |-> IF r.user # NULL THEN NULL ELSE r.ip,
     created_at |-> r.created_at, n |-> 0]

\* What the insert statement answers: a cast / NOT NULL error for a
\* non-integer index (no option_text), a unique violation, a foreign-key
\* violation, or success
InsertError(r, row) ==
    IF r.idx.t # "int" \/ row.option_text = Undefined THEN "db: invalid input"
    ELSE IF UniqueViolation(row, votes) THEN "db: duplicate key value violates unique constraint"
    ELSE IF ~PollExists(r.poll) THEN "db: violates foreign key constraint"
    ELSE ""

\* The insert statement of the vote transaction.  It waits while an
\* uncommitted row of another transaction holds its unique key.
VoteInsert(s) ==
    LET r == reqs[s]
        row == VoteData(r)
        others == {reqs[t].row : t \in Pending(r.poll) \ {s}}
        err == InsertError(r, row)
    IN  /\ Ready
        /\ r.op = "submitVote" /\ r.pc = "insert"
        /\ r.idx.t = "int" => ~UniqueViolation(row, others)
        /\ IF err # ""
           THEN /\ resp' = Respond("submitVote", 400, err, VoteReqOf(r))
                /\ reqs' = [reqs EXCEPT ![s] = Idle]
           ELSE /\ Cardinality(PollVotes(votes, r.poll)) + Cardinality(Pending(r.poll))
                       < MaxVotesPerPoll
                /\ resp' = NoResp
                /\ reqs' = [reqs EXCEPT ![s] =
                      [r EXCEPT !.pc = "commit", !.row = row,
                                !.sub = Subqueries(PollVotes(votes, r.poll) \cup {row}),
                                !.ticket = Cardinality(Pending(r.poll)) + 1]]
        /\ UNCHANGED <<polls, nextPollId, votes, analytics, now>>

\* The trigger's upsert takes the row lock of the poll's analytics row in
\* statement order; the transaction commits, and the handler answers
\* (lines 125-150).
VoteCommit(s) ==
    LET r == reqs[s]
        hasRow == r.poll \in DOMAIN analytics
        cur == IF hasRow THEN analytics[r.poll] ELSE NoAnalytics
        pa == AnalyticsOnInsert(cur, hasRow, r.row, r.sub)
    IN  /\ Ready
        /\ r.op = "submitVote" /\ r.pc = "commit" /\ r.ticket = 1
        /\ votes' = votes \cup {FreshRow(r.row, votes)}
        /\ analytics' = [x \in DOMAIN analytics \cup {r.poll} |->
                            IF x = r.poll THEN pa ELSE analytics[x]]
        /\ reqs' = [t \in Slots |->
                      IF t = s THEN Idle
                      ELSE IF t \in Pending(r.poll)
                           THEN [reqs[t] EXCEPT !.ticket = @ - 1]
                           ELSE reqs[t]]
        /\ resp' = Respond("submitVote", 200, "", VoteReqOf(r))
        /\ UNCHANGED <<polls, nextPollId, now>>


\* --------------------------------------------- GET /api/polls/[id]/vote
\* a query that drops the filter on voter_id
StatusVotesAnyVoter(user, id) == PollVotes(votes, id)

\* .eq('poll_id', pollId).eq('voter_id', user.id)
StatusVotes(user, id) == {v \in PollVotes(votes, id) : v.voter_id = user}

\* select('id, option_index, option_text, created_at')
StatusColumns(v) ==
    [id |-> v.n, option_index |-> v.option_index, option_text |-> v.option_text,
     created_at |-> v.created_at]

\* The handler: no Authorization header or no verified user answers
\* { hasVoted: false }; otherwise .single() over the caller's rows gives the
\* vote or null, and the answer is { hasVoted: !!vote, userVote: vote || null }.
VoteStatusOutcome(cred, id) ==
    LET user == IF cred = "none" THEN NULL ELSE GetUser(cred)
        rows == StatusVotes(user, id)
    IN  IF user = NULL THEN [hasVoted |-> FALSE, userVote |-> Undefined]
        ELSE IF Single(rows)
        THEN [hasVoted |-> TRUE, userVote |-> StatusColumns(CHOOSE v \in rows : TRUE)]
        ELSE [hasVoted |-> FALSE, userVote |-> NULL]

GetVoteStatus(cred, id) ==
    /\ Ready
    /\ resp' = [op |-> "getVoteStatus", status |-> 200, error |-> "",
                req |-> [cred |-> cred, poll |-> id],
                data |-> VoteStatusOutcome(cred, id)]
    /\ UNCHANGED <<polls, nextPollId, votes, analytics, reqs, now>>

\* ---------------------------------------------------- GET /api/polls
\* a query that lost its filter on created_by
OwnedByAnyone(user) == DOMAIN polls

\* .eq('created_by', user.id)
OwnedBy(user) == {p \in DOMAIN polls : polls[p].created_by = user}

\* .order('created_at', { ascending: false }): rows with equal created_at
\* may come in either order
OrderedDesc(seq) ==
    \A i, j \in DOMAIN seq : i < j => seq[i].created_at >= seq[j].created_at

\* every sequence the query may return for the polls ids
Listings(ids) ==
    LET n == Cardinality(ids)
    IN  {seq \in [1..n -> {PollResults(p) : p \in ids}] :
            /\ \A i, j \in 1..n : i # j => seq[i].id # seq[j].id
            /\ OrderedDesc(seq)}

ListChecks(cred) ==
    LET user == GetUser(cred)
    IN  IF cred = "none" THEN [status |-> 401, error |-> "Authorization header required"]
        ELSE IF user = NULL THEN [status |-> 401, error |-> "Invalid or expired token"]
        ELSE [status |-> 200, error |-> ""]

\* The handler: 401 without a verified user, else { polls: polls || [] }
ListPolls(cred) ==
    LET out == ListChecks(cred)
        req == [cred |-> cred]
    IN  /\ Ready
        /\ IF out.status # 200
           THEN resp' = Respond("listPolls", out.status, out.error, req)
           ELSE \E seq \in Listings(OwnedBy(GetUser(cred))) :
                   resp' = [op |-> "listPolls", status |-> 200, error |-> "",
                            req |-> req, data |-> seq]
        /\ UNCHANGED <<polls, nextPollId, votes, analytics, reqs, now>>

\* ------------------------------------------------ GET /api/polls/[id]
\* The handler reads no credential: `cred` is the requester's, recorded
\* with the answer.
GetPoll(cred, id) ==
    /\ Ready
    /\ resp' = IF PollExists(id)
               THEN [op |-> "getPoll", status |-> 200, error |-> "",
                     req |-> [cred |-> cred, poll |-> id], data |-> PollResults(id)]
               ELSE Respond("getPoll", 404, "Poll not found", [cred |-> cred, poll |-> id])
    /\ UNCHANGED <<polls, nextPollId, votes, analytics, reqs, now>>

\* ------------------------------------------------ PUT /api/polls/[id]
\* A patch: `has` names the fields the body carries.
Patch(has, title, question, options, amv, exp, act) ==
    [has |-> has, title |-> title, question |-> question, options |-> options,
     allow_multiple_votes |-> amv, expires_at |-> exp, is_active |-> act]

PatchOf(has, field, value) ==
    [Patch(has, TitleOk, QuestionOk, <<sR, sB>>, FALSE, NoTime, TRUE) EXCEPT ![field] = value]

\* a route without the ownership comparison of line 101
UpdateChecksNoOwner(cred, id, patch) ==
    LET user == GetUser(cred)
    IN  IF cred = "none" THEN [status |-> 401, error |-> "Authorization header required"]
        ELSE IF user = NULL THEN [status |-> 401, error |-> "Invalid or expired token"]
        ELSE IF "title" \in patch.has /\ patch.title # <<>>
                /\ Len(Trim(patch.title)) < MinTitleLen
             THEN [status |-> 400, error |-> "Title must be at least 3 characters"]
        ELSE IF "question" \in patch.has /\ patch.question # <<>>
                /\ Len(Trim(patch.question)) < MinQuestionLen
             THEN [status |-> 400, error |-> "Question must be at least 5 characters"]
        ELSE IF "options" \in patch.has /\ Len(patch.options) < MinOptions
             THEN [status |-> 400, error |-> "At least 2 options are required"]
        ELSE IF ~PollExists(id) THEN [status |-> 404, error |-> "Poll not found"]
        ELSE [status |-> 200, error |-> ""]

\* Lines 50-103: authentication, validation and the ownership read
UpdateChecks(cred, id, patch) ==
    LET user == GetUser(cred)
    IN  IF cred = "none" THEN [status |-> 401, error |-> "Authorization header required"]
        ELSE IF user = NULL THEN [status |-> 401, error |-> "Invalid or expired token"]
        ELSE IF "title" \in patch.has /\ patch.title # <<>>
                /\ Len(Trim(patch.title)) < MinTitleLen
             THEN [status |-> 400, error |-> "Title must be at least 3 characters"]
        ELSE IF "question" \in patch.has /\ patch.question # <<>>
                /\ Len(Trim(patch.question)) < MinQuestionLen
             THEN [status |-> 400, error |-> "Question must be at least 5 characters"]
        ELSE IF "options" \in patch.has /\ Len(patch.options) < MinOptions
             THEN [status |-> 400, error |-> "At least 2 options are required"]
        ELSE IF ~PollExists(id) THEN [status |-> 404, error |-> "Poll not found"]
        ELSE IF polls[id].created_by # user
             THEN [status |-> 403, error |-> "You can only edit your own polls"]
        ELSE [status |-> 200, error |-> ""]

\* an update that also writes the column default of is_active
ApplyPatchResetsActive(row, patch) ==
    [title |-> IF "title" \in patch.has THEN Trim(patch.title) ELSE row.title,
     question |-> IF "question" \in patch.has THEN Trim(patch.question) ELSE row.question,
     options |-> IF "options" \in patch.has THEN patch.options ELSE row.options,
     created_by |-> row.created_by, created_at |-> row.created_at,
     is_active |-> IF "is_active" \in patch.has THEN patch.is_active ELSE TRUE,
     allow_multiple_votes |-> IF "allow_multiple_votes" \in patch.has
                              THEN patch.allow_multiple_votes ELSE row.allow_multiple_votes,
     expires_at |-> IF "expires_at" \in patch.has THEN patch.expires_at ELSE row.expires_at]

\* Lines 105-116: updateData applied to the stored row
ApplyPatch(row, patch) ==
    [title |-> IF "title" \in patch.has THEN Trim(patch.title) ELSE row.title,
     question |-> IF "question" \in patch.has THEN Trim(patch.question) ELSE row.question,
     options |-> IF "options" \in patch.has THEN patch.options ELSE row.options,
     created_by |-> row.created_by, created_at |-> row.created_at,
     is_active |-> IF "is_active" \in patch.has THEN patch.is_active ELSE row.is_active,
     allow_multiple_votes |-> IF "allow_multiple_votes" \in patch.has
                              THEN patch.allow_multiple_votes ELSE row.allow_multiple_votes,
     expires_at |-> IF "expires_at" \in patch.has THEN patch.expires_at ELSE row.expires_at]

UpdateBegin(s, cred, id, patch) ==
    LET out == UpdateChecks(cred, id, patch)
        req == [cred |-> cred, poll |-> id, patch |-> patch]
    IN  /\ StartSlot(s)
        /\ IF out.status # 200
           THEN /\ resp' = Respond("updatePoll", out.status, out.error, req)
                /\ UNCHANGED reqs
           ELSE /\ resp' = NoResp
                /\ reqs' = [reqs EXCEPT ![s] =
                      [op |-> "updatePoll", pc |-> "write", cred |-> cred, poll |-> id,
                       patch |-> patch]]
        /\ UNCHANGED <<polls, nextPollId, votes, analytics, now>>

\* Lines 118-146: the UPDATE ... RETURNING, .single()
UpdateWrite(s) ==
    LET r == reqs[s]
        req == [cred |-> r.cred, poll |-> r.poll, patch |-> r.patch]
        row == ApplyPatch(polls[r.poll], r.patch)
    IN  /\ Ready
        /\ r.op = "updatePoll" /\ r.pc = "write"
        /\ IF ~PollExists(r.poll)
           THEN /\ resp' = Respond("updatePoll", 400, "db: no rows", req)
                /\ UNCHANGED polls
           ELSE IF ~PollsCheck(row)
           THEN /\ resp' = Respond("updatePoll", 400, PollsCheckError(row), req)
                /\ UNCHANGED polls
           ELSE /\ resp' = Respond("updatePoll", 200, "", req)
                /\ polls' = [polls EXCEPT ![r.poll] = row]
        /\ reqs' = [reqs EXCEPT ![s] = Idle]
        /\ UNCHANGED <<nextPollId, votes, analytics, now>>


\* --------------------------------------------- DELETE /api/polls/[id]
\* Lines 164-201: authentication and the ownership read
DeleteChecks(cred, id) ==
    LET user == GetUser(cred)
    IN  IF cred = "none" THEN [status |-> 401, error |-> "Authorization header required"]
        ELSE IF user = NULL THEN [status |-> 401, error |-> "Invalid or expired token"]
        ELSE IF ~PollExists(id) THEN [status |-> 404, error |-> "Poll not found"]
        ELSE IF polls[id].created_by # user
             THEN [status |-> 403, error |-> "You can only delete your own polls"]
        ELSE [status |-> 200, error |-> ""]

DeleteBegin(s, cred, id) ==
    LET out == DeleteChecks(cred, id)
        req == [cred |-> cred, poll |-> id]
    IN  /\ StartSlot(s)
        /\ IF out.status # 200
           THEN /\ resp' = Respond("deletePoll", out.status, out.error, req)
                /\ UNCHANGED reqs
           ELSE /\ resp' = NoResp
                /\ reqs' = [reqs EXCEPT ![s] =
                      [op |-> "deletePoll", pc |-> "write", cred |-> cred, poll |-> id]]
        /\ UNCHANGED <<polls, nextPollId, votes, analytics, now>>

\* votes.poll_id without ON DELETE CASCADE
CascadeVotesOff(vs, id) == vs

\* DELETE FROM polls WHERE id = ...: the rows of votes and poll_analytics
\* that reference the poll go with it (ON DELETE CASCADE)
CascadeVotes(vs, id) == {v \in vs : v.poll_id # id}
CascadeAnalytics(pa, id) == Remove(pa, id)

\* Lines 203-217.  The DELETE waits for the uncommitted vote inserts that
\* hold a key-share lock on the poll row.
DeleteWrite(s) ==
    LET r == reqs[s]
    IN  /\ Ready
        /\ r.op = "deletePoll" /\ r.pc = "write"
        /\ Pending(r.poll) = {}
        /\ polls' = Remove(polls, r.poll)
        /\ votes' = CascadeVotes(votes, r.poll)
        /\ analytics' = CascadeAnalytics(analytics, r.poll)
        /\ reqs' = [reqs EXCEPT ![s] = Idle]
        /\ resp' = Respond("deletePoll", 200, "", [cred |-> r.cred, poll |-> r.poll])
        /\ UNCHANGED <<nextPollId, now>>

\* ------------------------------------------------ deleteVote (lib/database)
\* a filter that no longer compares the row's voter_id with the caller
DeletableByAnyone(user, v) == TRUE

\* .eq('voter_id', userId) under the policy "Users can delete own votes":
\* USING (auth.uid() = voter_id).  A null voter_id equals nobody.
DeletableBy(user, v) == user # NULL /\ v.voter_id # NULL /\ v.voter_id = user

\* trigger update_poll_analytics, branch TG_OP = 'DELETE': an UPDATE of the
\* poll's analytics row (no row, nothing updated); last_vote_at is not in the
\* SET list and keeps its value.
AnalyticsOnDelete(cur, remaining) ==
    [total_votes |-> cur.total_votes - 1,
     unique_voters |-> CountDistinctVoters(remaining),
     option_counts |-> OptionCountsOf(remaining),
     last_vote_at |-> cur.last_vote_at]

\* deleteVote(voteId, userId): one DELETE statement on votes, filtered by id
\* and voter_id; it returns { error: null } whether or not a row matched.
DeleteVote(cred, v) ==
    LET user == GetUser(cred)
        hit == v \in votes /\ DeletableBy(user, v)
        remaining == PollVotes(votes \ {v}, v.poll_id)
    IN  /\ Ready
        /\ Pending(v.poll_id) = {}
        /\ votes' = IF hit THEN votes \ {v} ELSE votes
        /\ analytics' = IF hit /\ v.poll_id \in DOMAIN analytics
                        THEN [analytics EXCEPT ![v.poll_id] =
                                 AnalyticsOnDelete(analytics[v.poll_id], remaining)]
                        ELSE analytics
        /\ resp' = Respond("deleteVote", 200, "", [cred |-> cred, vote |-> v])
        /\ UNCHANGED <<polls, nextPollId, reqs, now>>

\* ------------------------------------------------------ specification
PollIds == 1..MaxPolls

\* Spec: concurrent handlers (MaxInFlight in flight) over well-formed
\* requests.
VoteCreateBodies ==
    [title : {TitleOk}, question : {QuestionOk}, options : {<<sR, sB>>},
     allow_multiple_votes : BOOLEAN, expires_at : {NoTime}]
VotePatches ==
    { PatchOf({"allow_multiple_votes"}, "allow_multiple_votes", TRUE) }
VoteCallers == {<<"u1", NULL>>, <<"u2", NULL>>, <<"none", "ip1">>, <<"none", NULL>>}

Next ==
    \/ \E body \in VoteCreateBodies : CreatePoll("u1", body)
    \/ \E id \in PollIds : GetPoll("none", id)
    \/ \E s \in Slots, cred \in Users, id \in PollIds, patch \in VotePatches :
          UpdateBegin(s, cred, id, patch)
    \/ \E s \in Slots : UpdateWrite(s)
    \/ \E s \in Slots, cred \in Users, id \in PollIds : DeleteBegin(s, cred, id)
    \/ \E s \in Slots : DeleteWrite(s)
    \/ \E s \in Slots, c \in VoteCallers, id \in PollIds, k \in 0..1 :
          VoteBegin(s, c[1], id, IdxInt(k), c[2])
    \/ \E s \in Slots : VoteCheckExisting(s)
    \/ \E s \in Slots : VoteInsert(s)
    \/ \E s \in Slots : VoteCommit(s)
    \/ Deliver

Spec == Init /\ [][Next]_vars

\* SpecSeq: one request at a time, over every request shape; the clock
\* moves between requests.
TickIdle == Tick /\ \A s \in Slots : reqs[s] = Idle

SeqCreateBodies ==
    [title : {TitleOk}, question : {QuestionOk}, options : {<<sR, sB>>},
     allow_multiple_votes : BOOLEAN, expires_at : ExpiryInputs]
SeqPatches ==
    { PatchOf({"is_active"}, "is_active", FALSE),
      PatchOf({"title"}, "title", TitleShort),
      PatchOf({"options"}, "options", <<sR>>),
      PatchOf({"options"}, "options", <<sR, sB, sG>>),
      PatchOf({"allow_multiple_votes"}, "allow_multiple_votes", TRUE),
      PatchOf({"allow_multiple_votes"}, "allow_multiple_votes", FALSE) }

NextSeq ==
    \/ \E body \in SeqCreateBodies : CreatePoll("u1", body)
    \/ TickIdle
    \/ \E cred \in Creds, id \in PollIds : GetPoll(cred, id)
    \/ \E cred \in Creds, id \in PollIds, patch \in SeqPatches :
          UpdateBegin(1, cred, id, patch)
    \/ UpdateWrite(1)
    \/ \E cred \in Creds, id \in PollIds : DeleteBegin(1, cred, id)
    \/ DeleteWrite(1)
    \/ \E cred \in Creds, id \in PollIds, idx \in IdxInputs, ip \in IpInputs :
          VoteBegin(1, cred, id, idx, ip)
    \/ VoteCheckExisting(1)
    \/ VoteInsert(1)
    \/ VoteCommit(1)
    \/ Deliver

SpecSeq == Init /\ [][NextSeq]_vars

\* SpecLedger: the vote ledger one request at a time: casting, the voter's
\* deleteVote, reading the results and deleting the poll.
LedgerCreateBodies ==
    [title : {TitleOk}, question : {QuestionOk}, options : {<<sR, sB>>},
     allow_multiple_votes : BOOLEAN, expires_at : {NoTime}]
LedgerCallers == {<<"u1", NULL>>, <<"u2", NULL>>, <<"none", "ip1">>, <<"none", NULL>>}

NextLedger ==
    \/ \E body \in LedgerCreateBodies : CreatePoll("u1", body)
    \/ TickIdle
    \/ \E cred \in Creds, id \in PollIds : GetPoll(cred, id)
    \/ \E c \in LedgerCallers, id \in PollIds, k \in 0..1 :
          VoteBegin(1, c[1], id, IdxInt(k), c[2])
    \/ VoteCheckExisting(1)
    \/ VoteInsert(1)
    \/ VoteCommit(1)
    \/ \E cred \in Creds, id \in PollIds : GetVoteStatus(cred, id)
    \/ \E cred \in Creds, v \in votes : DeleteVote(cred, v)
    \/ \E cred \in Users, id \in PollIds : DeleteBegin(1, cred, id)
    \/ DeleteWrite(1)
    \/ Deliver

SpecLedger == Init /\ [][NextLedger]_vars

\* SpecList: several polls of two owners, votes on them, and the owners'
\* listings.
MaxListed == 3
ListedIds == 1..MaxListed
ListCreateBodies ==
    [title : {TitleOk}, question : {QuestionOk}, options : {<<sR, sB>>},
     allow_multiple_votes : {FALSE}, expires_at : {NoTime}]

NextList ==
    \/ \E cred \in Users, body \in ListCreateBodies : CreatePollUpTo(cred, body, MaxListed)
    \/ TickIdle
    \/ \E cred \in Creds : ListPolls(cred)
    \/ \E id \in ListedIds : VoteBegin(1, "u1", id, IdxInt(0), NULL)
    \/ VoteCheckExisting(1)
    \/ VoteInsert(1)
    \/ VoteCommit(1)
    \/ \E cred \in Users, id \in ListedIds : DeleteBegin(1, cred, id)
    \/ DeleteWrite(1)
    \/ Deliver

SpecList == Init /\ [][NextList]_vars

\* SpecRace: Spec with the clock running while handlers are in flight, so
\* that two votes can be stamped in one order and inserted in the other.
NextRace == Next \/ Tick

SpecRace == Init /\ [][NextRace]_vars

\* SpecRepo: the poll repository alone, one request at a time, over every
\* shape of createPoll body and updatePoll patch.
RepoPatches ==
    {PatchOf({"title"}, "title", t) : t \in TitleInputs}
    \cup {PatchOf({"question"}, "question", q) : q \in QuestionInputs}
    \cup {PatchOf({"options"}, "options", o) : o \in OptionInputs}
    \cup {PatchOf({"is_active"}, "is_active", b) : b \in BOOLEAN}
    \cup {PatchOf({"expires_at"}, "expires_at", e) : e \in ExpiryInputs}
    \cup {PatchOf({"title", "options", "allow_multiple_votes"}, "allow_multiple_votes", TRUE)}

NextRepo ==
    \/ \E cred \in Creds, body \in CreateBodies : CreatePoll(cred, body)
    \/ \E cred \in Creds, id \in PollIds : GetPoll(cred, id)
    \/ \E cred \in Creds, id \in PollIds, patch \in RepoPatches :
          UpdateBegin(1, cred, id, patch)
    \/ UpdateWrite(1)
    \/ \E cred \in Creds, id \in PollIds : DeleteBegin(1, cred, id)
    \/ DeleteWrite(1)
    \/ Deliver

SpecRepo == Init /\ [][NextRepo]_vars

\* SpecEdit: votes in flight while the owner edits the poll.
EditCreateBodies ==
    [title : {TitleOk}, question : {QuestionOk},
     options : {<<sR, sB>>, <<sR, sB, sG>>},
     allow_multiple_votes : BOOLEAN, expires_at : {NoTime}]
EditPatches ==
    { PatchOf({"options"}, "options", <<sG, sR>>),
      PatchOf({"is_active"}, "is_active", FALSE) }
EditCallers == {<<"u1", NULL>>, <<"none", "ip1">>}

NextEdit ==
    \/ \E body \in EditCreateBodies : CreatePoll("u1", body)
    \/ \E s \in Slots, id \in PollIds, patch \in EditPatches :
          UpdateBegin(s, "u1", id, patch)
    \/ \E s \in Slots : UpdateWrite(s)
    \/ \E s \in Slots, c \in EditCallers, id \in PollIds, k \in 0..MaxIdxInput :
          VoteBegin(s, c[1], id, IdxInt(k), c[2])
    \/ \E s \in Slots : VoteCheckExisting(s)
    \/ \E s \in Slots : VoteInsert(s)
    \/ \E s \in Slots : VoteCommit(s)
    \/ Deliver

SpecEdit == Init /\ [][NextEdit]_vars


\* ------------------------------------------------------------- claims
Max(S) == CHOOSE x \in S : \A y \in S : y <= x

\* PollAnalytics recomputed from scratch over the vote rows `vs` of one poll
Recompute(vs) ==
    [total_votes |-> Cardinality(vs),
     unique_voters |-> CountDistinctVoters(vs),
     option_counts |-> OptionCountsOf(vs),
     last_vote_at |-> IF vs = {} THEN NoTime ELSE Max({v.created_at : v \in vs})]

\* C1: in every reachable state, for every poll with allow_multiple_votes =
\* false, no two vote rows of the poll have the same non-null voter_id, and
\* no two rows with a null voter_id have the same non-null voter_ip.
C1_OneVotePerIdentity ==
    \A p \in DOMAIN polls :
        ~polls[p].allow_multiple_votes =>
            \A v, w \in PollVotes(votes, p) :
                v # w =>
                    /\ ~(v.voter_id # NULL /\ v.voter_id = w.voter_id)
                    /\ ~(/\ v.voter_id = NULL /\ w.voter_id = NULL
                         /\ v.voter_ip # NULL /\ v.voter_ip = w.voter_ip)

\* a single-vote poll holds two votes and a duplicate submitVote was just
\* turned away
C1_Witness ==
    /\ resp.op = "submitVote" /\ resp.status \in {400, 409}
    /\ PollExists(resp.req.poll)
    /\ ~polls[resp.req.poll].allow_multiple_votes
    /\ Cardinality(PollVotes(votes, resp.req.poll)) >= 2

\* C2: a submitVote that loses the race against a concurrent vote of the
\* same (poll, identity) on a single-vote poll, and is turned away by the
\* unique index, fails with the Conflict kind.
C2_RaceLoserGetsConflict ==
    (/\ resp.op = "submitVote"
     /\ resp.error = "db: duplicate key value violates unique constraint"
     /\ PollExists(resp.req.poll)
     /\ ~polls[resp.req.poll].allow_multiple_votes)
        => Kind(resp.status) = "Conflict"

\* C3: the maintained analytics row of every poll equals the row recomputed
\* from the poll's vote rows, and a poll without an analytics row has no
\* votes.
C3_AnalyticsMatchLedger ==
    \A p \in DOMAIN polls :
        IF p \in DOMAIN analytics
        THEN analytics[p] = Recompute(PollVotes(votes, p))
        ELSE PollVotes(votes, p) = {}

\* C4: every vote row and every analytics row refers to an existing poll;
\* right after a successful deletePoll(p) the poll, its votes and its
\* analytics row are gone; getPoll of a deleted poll answers NotFound.
C4_CascadeDelete ==
    /\ \A v \in votes : PollExists(v.poll_id)
    /\ \A p \in DOMAIN analytics : PollExists(p)
    /\ (resp.op = "deletePoll" /\ resp.status = 200) =>
          /\ ~PollExists(resp.req.poll)
          /\ PollVotes(votes, resp.req.poll) = {}
          /\ resp.req.poll \notin DOMAIN analytics
    /\ (resp.op = "getPoll" /\ resp.req.poll < nextPollId /\ ~PollExists(resp.req.poll)) =>
          Kind(resp.status) = "NotFound"

\* a vote insert on the deleted poll, in flight across the delete, was just
\* turned away by the foreign key
C4_Witness ==
    /\ resp.op = "submitVote"
    /\ resp.error = "db: violates foreign key constraint"
    /\ resp.req.poll < nextPollId
    /\ ~PollExists(resp.req.poll)

\* ---- the checks of submitVote, one by one, for a request q read in the
\* state the request meets
Min(S) == CHOOSE x \in S : \A y \in S : x <= y

PastExpiry(p) == polls[p].expires_at # NoTime /\ polls[p].expires_at < now

\* the votes that the caller's identity already has on the poll
PriorVotes(q) ==
    LET user == GetUser(q.cred)
    IN  {v \in PollVotes(votes, q.poll) :
            \/ user # NULL /\ v.voter_id = user
            \/ user = NULL /\ q.ip # NULL /\ v.voter_id = NULL /\ v.voter_ip = q.ip}

Fails(check, q) ==
    CASE check = "wellformed" -> ~(q.idx.t \in {"int", "frac"} /\ q.idx.v >= 0)
      [] check = "exists" -> ~PollExists(q.poll)
      [] check = "active" -> PollExists(q.poll) /\ ~polls[q.poll].is_active
      [] check = "unexpired" -> PollExists(q.poll) /\ PastExpiry(q.poll)
      [] check = "inrange" ->
            /\ PollExists(q.poll) /\ q.idx.t \in {"int", "frac"}
            /\ q.idx.v >= Len(polls[q.poll].options)
      [] check = "validindex" ->
            \/ q.idx.t # "int" \/ q.idx.v < 0
            \/ PollExists(q.poll) /\ q.idx.v >= Len(polls[q.poll].options)
      [] check = "novote" ->
            /\ PollExists(q.poll) /\ ~polls[q.poll].allow_multiple_votes
            /\ PriorVotes(q) # {}

KindOfCheck(check) ==
    CASE check = "exists" -> "NotFound"
      [] check \in {"active", "unexpired"} -> "Forbidden"
      [] check \in {"wellformed", "inrange", "validindex"} -> "ValidationError"
      [] check = "novote" -> "Conflict"

\* the check a submitVote failure message reports
ReportedCheck(error) ==
    CASE error \in {"Option index is required", "Invalid option index"} -> "wellformed"
      [] error = "Poll not found" -> "exists"
      [] error = "This poll is not accepting votes" -> "active"
      [] error = "This poll has expired" -> "unexpired"
      [] error = "Invalid option selected" -> "inrange"
      [] error \in {"You have already voted on this poll",
                    "A vote from this location has already been recorded"} -> "novote"
      [] OTHER -> "other"

FirstFailing(order, q) ==
    LET F == {i \in 1..Len(order) : Fails(order[i], q)}
    IN  IF F = {} THEN "none" ELSE order[Min(F)]

RouteOrder == <<"wellformed", "exists", "active", "unexpired", "inrange", "novote">>
StatedOrder == <<"exists", "active", "unexpired", "validindex", "novote">>

OutOfRange(q) ==
    /\ PollExists(q.poll) /\ q.idx.t \in {"int", "frac"}
    /\ q.idx.v >= Len(polls[q.poll].options)

\* C6 (as stated): a submitVote whose option index is >= the number of the
\* poll's options fails with ValidationError whatever the poll's state, and
\* records no vote.
C6_AlwaysValidationError ==
    [][ (resp'.op = "submitVote" /\ OutOfRange(resp'.req)) =>
          /\ Kind(resp'.status) = "ValidationError"
          /\ votes' = votes /\ analytics' = analytics ]_vars

\* C6 (amended): a submitVote whose option index is >= the number of the
\* poll's options records no vote; it fails with ValidationError when the
\* poll is active and not expired (whether or not the caller has voted), and
\* with Forbidden when the poll is inactive or expired.
C6_OutOfRangeRejected ==
    [][ (resp'.op = "submitVote" /\ OutOfRange(resp'.req)) =>
          /\ Kind(resp'.status) =
                IF ~polls[resp'.req.poll].is_active \/ PastExpiry(resp'.req.poll)
                THEN "Forbidden" ELSE "ValidationError"
          /\ votes' = votes /\ analytics' = analytics ]_vars

\* a caller who has voted on an open poll asks for an option past the end
C6_Witness ==
    /\ resp.op = "submitVote" /\ resp.error = "Invalid option selected"
    /\ OutOfRange(resp.req)
    /\ PriorVotes(resp.req) # {}

Closed(q) ==
    PollExists(q.poll) /\ (~polls[q.poll].is_active \/ PastExpiry(q.poll))

NonOwnerCall(q) ==
    /\ q.cred \in Users
    /\ PollExists(q.poll)
    /\ polls[q.poll].created_by # q.cred

\* a patch the body validation of updatePoll turns away
PatchMalformed(patch) ==
    \/ "title" \in patch.has /\ patch.title # <<>> /\ Len(Trim(patch.title)) < 3
    \/ "question" \in patch.has /\ patch.question # <<>> /\ Len(Trim(patch.question)) < 5
    \/ "options" \in patch.has /\ Len(patch.options) < 2

\* a step that changes or removes a stored poll is the successful update or
\* delete of that poll by its owner
OnlyOwnerWrites ==
    \A p \in DOMAIN polls :
        (p \notin DOMAIN polls' \/ polls'[p] # polls[p]) =>
            /\ resp'.op \in {"updatePoll", "deletePoll"} /\ resp'.status = 200
            /\ resp'.req.poll = p
            /\ resp'.req.cred = polls[p].created_by

\* C8 (as stated): updatePoll and deletePoll on an existing poll by an
\* authenticated non-owner fail with Forbidden whatever the patch, and leave
\* the poll, its votes and its analytics unchanged; only the owner's call
\* changes or removes the poll.
C8_NonOwnerAlwaysForbidden ==
    [][ /\ (resp'.op \in {"updatePoll", "deletePoll"} /\ NonOwnerCall(resp'.req)) =>
             /\ Kind(resp'.status) = "Forbidden"
             /\ polls' = polls /\ votes' = votes /\ analytics' = analytics
        /\ OnlyOwnerWrites ]_vars

\* C8 (amended): updatePoll and deletePoll on an existing poll by an
\* authenticated non-owner leave the poll, its votes and its analytics
\* unchanged; deletePoll fails with Forbidden, updatePoll fails with
\* ValidationError when the patch fails the body validation (title, question,
\* option count) and with Forbidden otherwise; only the owner's call changes
\* or removes the poll.
C8_NonOwnerRejected ==
    [][ /\ (resp'.op \in {"updatePoll", "deletePoll"} /\ NonOwnerCall(resp'.req)) =>
             /\ Kind(resp'.status) =
                   IF resp'.op = "updatePoll" /\ PatchMalformed(resp'.req.patch)
                   THEN "ValidationError" ELSE "Forbidden"
             /\ polls' = polls /\ votes' = votes /\ analytics' = analytics
        /\ OnlyOwnerWrites ]_vars

\* a non-owner's well-formed patch that would close the poll was turned away
C8_Witness ==
    /\ resp.op = "updatePoll" /\ resp.status = 403
    /\ NonOwnerCall(resp.req)
    /\ "is_active" \in resp.req.patch.has
    /\ polls[resp.req.poll].is_active

\* C9: getPoll returns a poll's data only if the poll is active or the
\* requester is its created_by.
C9_ReadOnlyActiveOrOwner ==
    (resp.op = "getPoll" /\ resp.status = 200) =>
        \/ resp.data.is_active
        \/ GetUser(resp.req.cred) = resp.data.created_by

\* C10: createPoll rejects with ValidationError every input whose options
\* hold two entries that are equal after trimming, and no poll it persists
\* has duplicate options.
C10_DuplicateOptionsRejected ==
    [][ resp'.op = "createPoll" =>
          /\ (resp'.req.cred \in Users /\ HasDuplicates(CleanOptions(resp'.req.body.options)))
                => (Kind(resp'.status) = "ValidationError" /\ polls' = polls)
          /\ \A p \in DOMAIN polls' \ DOMAIN polls : ~HasDuplicates(polls'[p].options) ]_vars

\* ---- createPoll, for an authenticated caller with a valid title and
\* question and options pairwise distinct once cleaned
Trimmed(opts) == [i \in 1..Len(opts) |-> Trim(opts[i])]
NonBlank(opts) == {i \in 1..Len(opts) : Trimmed(opts)[i] # <<>>}

\* the trimmed, non-blank entries of opts in their original order
RECURSIVE Cleaned(_)
Cleaned(opts) ==
    IF opts = <<>> THEN <<>>
    ELSE LET rest == Cleaned(SubSeq(opts, 1, Len(opts) - 1))
             last == Trim(opts[Len(opts)])
         IN  IF last = <<>> THEN rest ELSE Append(rest, last)

DistinctOptionsCall(q) ==
    /\ q.cred \in Users
    /\ Len(Trim(q.body.title)) >= 3 /\ Len(Trim(q.body.title)) <= 200
    /\ Len(Trim(q.body.question)) >= 5 /\ Len(Trim(q.body.question)) <= 500
    /\ \A i, j \in NonBlank(q.body.options) :
          i # j => Trimmed(q.body.options)[i] # Trimmed(q.body.options)[j]

Created == {p \in DOMAIN polls' : p \notin DOMAIN polls}

WellFormedOptions(opts) ==
    /\ Len(opts) >= 2 /\ Len(opts) <= 10
    /\ \A i \in 1..Len(opts) : Trim(opts[i]) # <<>>
    /\ \A i, j \in 1..Len(opts) : i # j => Trim(opts[i]) # Trim(opts[j])

Violates(rule, b) ==
    CASE rule = "title" -> ~(Len(Trim(b.title)) >= 3 /\ Len(Trim(b.title)) <= 200)
      [] rule = "question" -> ~(Len(Trim(b.question)) >= 5 /\ Len(Trim(b.question)) <= 500)
      [] rule = "count" -> ~(Len(Cleaned(b.options)) >= 2 /\ Len(Cleaned(b.options)) <= 10)
      [] rule = "uniqueness" ->
            \E i, j \in NonBlank(b.options) :
                i # j /\ Trimmed(b.options)[i] = Trimmed(b.options)[j]
      [] rule = "title too short" -> Len(Trim(b.title)) < 3
      [] rule = "question too short" -> Len(Trim(b.question)) < 5
      [] rule = "too few entries" -> Len(b.options) < 2
      [] rule = "too many entries" -> Len(b.options) > 10
      [] rule = "too few after cleaning" -> Len(Cleaned(b.options)) < 2
      [] rule = "stored question too long" -> Len(Trim(b.question)) > 500
      [] rule = "stored title too long" -> Len(Trim(b.title)) > 200

\* the rule a createPoll failure message names
ReportedRule(error) ==
    CASE error = "Title must be at least 3 characters" -> "title too short"
      [] error = "Question must be at least 5 characters" -> "question too short"
      [] error = "At least 2 options are required" -> "too few entries"
      [] error = "Maximum 10 options allowed" -> "too many entries"
      [] error = "At least 2 non-empty options are required" -> "too few after cleaning"
      [] error = "db: violates check constraint polls_question_check" -> "stored question too long"
      [] error = "db: violates check constraint polls_title_check" -> "stored title too long"
      [] OTHER -> "other"

\* the field a reported rule is about
FieldOf(rule) ==
    CASE rule \in {"title too short", "stored title too long"} -> "title"
      [] rule \in {"question too short", "stored question too long"} -> "question"
      [] rule \in {"too few entries", "too many entries", "too few after cleaning"} -> "count"
      [] OTHER -> "other"

FirstViolated(order, b) ==
    LET V == {i \in 1..Len(order) : Violates(order[i], b)}
    IN  IF V = {} THEN "none" ELSE order[Min(V)]

StatedRules == <<"title", "question", "count", "uniqueness">>
RouteRules ==
    <<"title too short", "question too short", "too few entries", "too many entries",
      "too few after cleaning", "stored question too long", "stored title too long">>

C14_CreateAuthenticated ==
    [][ /\ (resp'.op = "createPoll" /\ resp'.req.cred \notin Users) =>
              /\ Kind(resp'.status) = "Unauthorized"
              /\ polls' = polls /\ votes' = votes /\ analytics' = analytics
        /\ \A p \in Created :
              /\ resp'.op = "createPoll" /\ resp'.status = 200
              /\ resp'.req.cred \in Users
              /\ polls'[p].created_by = resp'.req.cred
              /\ polls'[p].is_active
              /\ PollResults(p)'.total_votes = 0
              /\ PollResults(p)'.unique_voters = 0
              /\ PollResults(p)'.option_counts = <<>>
              /\ PollResults(p)'.last_vote_at = NoTime
              /\ PollVotes(votes', p) = {} ]_vars

\* u1 created a poll with a body that names u2 as created_by and asks for
\* an inactive poll
C14_Witness ==
    /\ resp.op = "createPoll" /\ resp.status = 200
    /\ resp.req.cred = "u1" /\ resp.req.body.created_by = "u2"
    /\ resp.req.body.is_active = "false"
    /\ \E p \in DOMAIN polls : polls[p].created_by = "u1" /\ polls[p].is_active

PatchFields ==
    {"title", "question", "options", "allow_multiple_votes", "expires_at", "is_active"}

\* C15: a successful updatePoll changes only the fields present in the
\* patch: every absent field keeps its value, every present field takes the
\* patch's value (title and question trimmed), created_by and the poll's id
\* do not change, no other poll changes, and the votes and the analytics
\* are left unchanged.
C15_UpdateFrame ==
    [][ (resp'.op = "updatePoll" /\ resp'.status = 200) =>
          LET p == resp'.req.poll
              patch == resp'.req.patch
          IN  /\ DOMAIN polls' = DOMAIN polls /\ p \in DOMAIN polls
              /\ \A q \in DOMAIN polls \ {p} : polls'[q] = polls[q]
              /\ polls'[p].created_by = polls[p].created_by
              /\ \A f \in PatchFields \ patch.has : polls'[p][f] = polls[p][f]
              /\ \A f \in PatchFields \cap patch.has :
                    polls'[p][f] = IF f \in {"title", "question"}
                                   THEN Trim(patch[f]) ELSE patch[f]
              /\ votes' = votes /\ analytics' = analytics ]_vars

\* the owner reopened the voting rule of a closed poll that has a vote: the
\* patch carries allow_multiple_votes alone and the poll stays closed
C15_Witness ==
    /\ resp.op = "updatePoll" /\ resp.status = 200
    /\ resp.req.patch.has = {"allow_multiple_votes"}
    /\ ~polls[resp.req.poll].is_active
    /\ PollVotes(votes, resp.req.poll) # {}
    /\ resp.req.poll \in DOMAIN analytics

NewVotes == votes' \ votes

\* C16: every vote row's option_text is options[option_index] of its poll
\* as the poll stands at the instant the row is inserted, also when an
\* updatePoll changing the options interleaves with the submitVote; and no
\* updatePoll changes an existing vote row.
C16_OptionTextSnapshot ==
    [][ /\ \A v \in NewVotes :
              /\ v.option_index + 1 \in DOMAIN polls[v.poll_id].options
              /\ v.option_text = polls[v.poll_id].options[v.option_index + 1]
        /\ resp'.op = "updatePoll" => votes' = votes ]_vars


\* Votes of the ledger that the step removes or replaces.
GoneVotes == votes \ votes'

\* the step is a poll owner's successful deletePoll of poll id
OwnerDeletesPoll(id) ==
    /\ resp'.op = "deletePoll" /\ resp'.status = 200
    /\ resp'.req.poll = id
    /\ id \in DOMAIN polls /\ GetUser(resp'.req.cred) = polls[id].created_by

\* the step is the deleteVote of row v by the identity that cast it
VoterDeletesOwn(v) ==
    /\ resp'.op = "deleteVote" /\ resp'.req.vote = v
    /\ v.voter_id # NULL /\ GetUser(resp'.req.cred) = v.voter_id

CastBy(cred, id) ==
    {v \in votes : v.poll_id = id /\ GetUser(cred) # NULL /\ v.voter_id = GetUser(cred)}

\* C18: getVoteStatus always answers OK; hasVoted is true exactly when the
\* caller is a verified identity with at least one vote on the poll, the
\* returned vote is then one of that identity's rows, and a caller without
\* a verified credential gets hasVoted = false whatever the ledger holds.
C18_VoteStatus ==
    (resp # NoResp /\ resp.op = "getVoteStatus") =>
        LET mine == CastBy(resp.req.cred, resp.req.poll)
        IN  /\ resp.status = 200
            /\ resp.data.hasVoted = (mine # {})
            /\ resp.data.hasVoted =>
                  \E v \in mine : resp.data.userVote = StatusColumns(v)
            /\ GetUser(resp.req.cred) = NULL => ~resp.data.hasVoted

\* getVoteStatus answered a voter with their vote while another identity's
\* vote and an anonymous vote sit on the same poll
C18_Witness ==
    /\ resp # NoResp /\ resp.op = "getVoteStatus"
    /\ resp.data.hasVoted
    /\ \E v \in PollVotes(votes, resp.req.poll) : v.voter_id = NULL


\* the answer rejects a submitVote as a duplicate: the handler's 409 or the
\* unique index's refusal of the insert
DuplicateRejection ==
    /\ resp # NoResp /\ resp.op = "submitVote"
    /\ \/ resp.status = 409
       \/ resp.error = "db: duplicate key value violates unique constraint"

FurtherVote(q) ==
    /\ PollExists(q.poll)
    /\ polls[q.poll].allow_multiple_votes
    /\ polls[q.poll].is_active /\ ~PastExpiry(q.poll)
    /\ q.idx.t = "int" /\ q.idx.v >= 0 /\ q.idx.v < Len(polls[q.poll].options)
    /\ PriorVotes(q) # {}

\* C20: on an active, unexpired poll with allow_multiple_votes = true, a
\* second submitVote with a valid option by an identity (authenticated, or
\* anonymous from the same origin) that already has a vote on the poll
\* succeeds and adds one more vote row.
C20_MultipleVotesAccepted ==
    [][(resp'.op = "submitVote" /\ FurtherVote(resp'.req)) =>
          /\ resp'.status = 200
          /\ Cardinality(PollVotes(votes', resp'.req.poll))
                = Cardinality(PollVotes(votes, resp'.req.poll)) + 1]_vars


\* the four writing operations, and what the database stores
WritingOps == {"createPoll", "updatePoll", "deletePoll", "submitVote"}
Stored == <<polls, votes, analytics>>

\* the step answers a call of a writing operation
Answers(op) == resp = NoResp /\ resp'.op = op

\* what a successful call of each operation has written when it answers
AppliedCreate == \E p \in DOMAIN polls' : p \notin DOMAIN polls
AppliedUpdate ==
    LET p == resp'.req.poll
    IN  p \in DOMAIN polls /\ p \in DOMAIN polls'
        /\ polls'[p] = ApplyPatch(polls[p], resp'.req.patch)
AppliedDelete ==
    LET p == resp'.req.poll
    IN  /\ p \notin DOMAIN polls' /\ p \notin DOMAIN analytics'
        /\ PollVotes(votes', p) = {}
AppliedVote ==
    LET p == resp'.req.poll
    IN  \E v \in votes' \ votes :
           /\ v.poll_id = p /\ votes' = votes \cup {v}
           /\ p \in DOMAIN analytics'
           /\ analytics'[p].total_votes =
                 (IF p \in DOMAIN analytics THEN analytics[p].total_votes ELSE 0) + 1
           /\ analytics'[p].last_vote_at = v.created_at

\* C21: a createPoll, updatePoll, deletePoll or submitVote call that
\* answers a failure has written nothing (no step of a handler writes
\* before the step that answers success), and a call that answers success
\* has applied all of its writes in that step: for submitVote the vote row
\* and the analytics update together.
C21_AllOrNothing ==
    [][ /\ Stored' # Stored =>
              \E op \in WritingOps : Answers(op) /\ resp'.status = 200
        /\ \A op \in WritingOps :
              (Answers(op) /\ resp'.status # 200) => Stored' = Stored
        /\ (Answers("createPoll") /\ resp'.status = 200) => AppliedCreate
        /\ (Answers("updatePoll") /\ resp'.status = 200) => AppliedUpdate
        /\ (Answers("deletePoll") /\ resp'.status = 200) => AppliedDelete
        /\ (Answers("submitVote") /\ resp'.status = 200) => AppliedVote ]_vars

\* a submitVote was refused by the database at its write (the unique index,
\* after a concurrent vote of the same identity) while the poll holds a vote
C21_Witness ==
    /\ resp # NoResp /\ resp.op = "submitVote" /\ resp.status = 400
    /\ resp.error = "db: duplicate key value violates unique constraint"
    /\ PollVotes(votes, resp.req.poll) # {}


SubmitVoteFailureKinds == {"NotFound", "Forbidden", "ValidationError", "Conflict"}

C23_ListPolls ==
    (resp # NoResp /\ resp.op = "listPolls") =>
        LET user == GetUser(resp.req.cred)
        IN  IF user = NULL
            THEN Kind(resp.status) = "Unauthorized"
            ELSE /\ resp.status = 200
                 /\ {resp.data[i].id : i \in DOMAIN resp.data}
                       = {p \in DOMAIN polls : polls[p].created_by = user}
                 /\ Len(resp.data) = Cardinality({p \in DOMAIN polls : polls[p].created_by = user})
                 /\ \A i \in DOMAIN resp.data :
                       LET row == resp.data[i]
                           pa == IF row.id \in DOMAIN analytics
                                 THEN analytics[row.id] ELSE NoAnalytics
                       IN  /\ row.title = polls[row.id].title
                           /\ row.created_at = polls[row.id].created_at
                           /\ row.total_votes = pa.total_votes
                           /\ row.unique_voters = pa.unique_voters
                           /\ row.option_counts = pa.option_counts
                           /\ row.last_vote_at = pa.last_vote_at
                 /\ \A i \in 1..(Len(resp.data) - 1) :
                       resp.data[i].created_at >= resp.data[i + 1].created_at

\* a listing of two polls created at different times, the newer with a
\* vote, while the other owner has a poll too
C23_Witness ==
    /\ resp # NoResp /\ resp.op = "listPolls" /\ resp.status = 200
    /\ Len(resp.data) = 2
    /\ resp.data[1].created_at > resp.data[2].created_at
    /\ resp.data[1].total_votes = 1
    /\ \E p \in DOMAIN polls : polls[p].created_by # GetUser(resp.req.cred)


NoOriginVote(q) ==
    /\ GetUser(q.cred) = NULL /\ q.ip = NULL
    /\ PollExists(q.poll)
    /\ ~polls[q.poll].allow_multiple_votes
    /\ polls[q.poll].is_active /\ ~PastExpiry(q.poll)
    /\ q.idx.t = "int" /\ q.idx.v >= 0 /\ q.idx.v < Len(polls[q.poll].options)

\* C25: on an active, unexpired single-vote poll, an anonymous submitVote
\* without an origin and with a valid option is accepted whatever votes
\* the poll holds; it is never answered Conflict.
C25_NoOriginNeverDuplicate ==
    [][(Answers("submitVote") /\ NoOriginVote(resp'.req)) =>
          /\ resp'.status = 200
          /\ \E v \in votes' \ votes : v.voter_id = NULL /\ v.voter_ip = NULL]_vars


\* the step executes the insert statement of the submitVote in slot s
InsertsVote(s) ==
    /\ reqs[s].op = "submitVote" /\ reqs[s].pc = "insert"
    /\ reqs'[s].op = "submitVote" /\ reqs'[s].pc = "commit"

\* C26: when submitVote interleaves with an updatePoll on the same poll,
\* no vote row is inserted at an instant at which the poll is inactive or
\* expired.
C26_EligibleWhenInserted ==
    [][\A s \in Slots :
          InsertsVote(s) =>
              /\ PollExists(reqs[s].poll)
              /\ polls[reqs[s].poll].is_active
              /\ ~PastExpiry(reqs[s].poll)]_vars


\* C27: in every reachable state, a poll's last_vote_at (as getPoll shows
\* it) is null when the poll has no votes and otherwise the greatest
\* created_at among the poll's vote rows.
C27_LastVoteAtIsNewest ==
    \A p \in DOMAIN polls :
        LET vs == PollVotes(votes, p)
        IN  PollResults(p).last_vote_at =
               IF vs = {} THEN NoTime ELSE Max({v.created_at : v \in vs})

\* the identities among vote rows vs: the voter_id when present, otherwise
\* the voter_ip; a row with neither names no identity
Identities(vs) ==
    {IF v.voter_id # NULL THEN v.voter_id ELSE v.voter_ip : v \in vs} \ {NULL}

\* C28: in every reachable state, a poll's unique_voters (as getPoll shows
\* it) is the number of distinct voter identities among its vote rows, from
\* the first vote on, also when a vote is anonymous and has no voter_ip.
C28_UniqueVotersCountsIdentities ==
    \A p \in DOMAIN polls :
        PollResults(p).unique_voters = Cardinality(Identities(PollVotes(votes, p)))

RECURSIVE SumOf(_)
SumOf(f) ==
    IF DOMAIN f = {} THEN 0
    ELSE LET k == CHOOSE x \in DOMAIN f : TRUE
         IN  f[k] + SumOf([x \in DOMAIN f \ {k} |-> f[x]])

\* C30: in every reachable state, for every poll with an analytics row,
\* total_votes equals the sum of the values of option_counts and both equal
\* the number of the poll's vote rows.
C30_CountsAgree ==
    \A p \in DOMAIN polls :
        p \in DOMAIN analytics =>
            /\ analytics[p].total_votes = SumOf(analytics[p].option_counts)
            /\ analytics[p].total_votes = Cardinality(PollVotes(votes, p))


\* C29: in every reachable state, every vote row's option_index is a valid
\* index into its poll's current options, and every key of the poll's
\* option_counts names an option the poll currently has.
C29_IndexWithinCurrentOptions ==
    /\ \A v \in votes :
          PollExists(v.poll_id) =>
              (v.option_index >= 0 /\ v.option_index < Len(polls[v.poll_id].options))
    /\ \A p \in DOMAIN polls :
          \A key \in DOMAIN PollResults(p).option_counts :
              key >= 0 /\ key < Len(polls[p].options)

=============================================================================
